---- MODULE Spec2Model ----
(***************************************************************************)
(* Model of gui/assistant_dialogs.py: the AssistantConfigDialog form       *)
(* (profile fields, capability check boxes, save), its dictation bridge    *)
(* (microphone, partial and final speech results written into the          *)
(* instructions editor), the profile store it loads from, its instructions *)
(* review (one thread per request, signals queued to the UI thread) and    *)
(* the ExportAssistantDialog with the files it reads and writes.           *)
(*                                                                         *)
(* Texts of the two QTextEdit widgets are sequences of one-character       *)
(* strings; names, model ids, assistant ids and paths are atomic strings.  *)
(* The text alphabet holds no markup, so QTextEdit.setText selects plain   *)
(* text and setText/setPlainText/toPlainText carry the text unchanged.     *)
(***************************************************************************)
EXTENDS Integers, Sequences, FiniteSets, TLC

VARIABLES dlg, configs, messageBox,
          fs, exportDlg,
          workers, uiQueue, uiLog, reviewed_instructions

\* the files on disk and the ExportAssistantDialog
exportVars == <<fs, exportDlg>>

\* the review threads, the events posted to the UI thread and not yet handled,
\* what the UI thread has handled, and the dialog's reviewed_instructions attribute
reviewVars == <<workers, uiQueue, uiLog, reviewed_instructions>>

vars == <<dlg, configs, messageBox, exportVars, reviewVars>>

-----------------------------------------------------------------------------
(* Bounds and input alphabets *)

\* longest text the instructions editor may hold before dictation input stops
MaxLen == 4

\* most review requests made while the dialog is open
MaxRequests == 2

\* Python's None
None == "None"

NL == "\n"

EmptyDict == [p \in {} |-> None]

AIClientTypes == {"OPEN_AI", "AZURE_OPEN_AI"}

AssistantTypes == {"assistant", "chat_assistant"}

NewAssistant == "New Assistant"

\* texts the speech recogniser delivers
SpokenTexts == {<<"a">>, <<"b">>, <<"a", "b">>}

\* texts the user types into the instructions field of the General tab
TypedInstructions == {<< >>, <<"b">>}

TypedNames == {"", "N"}

TypedModels == {"", "m9"}

\* model lists the OPEN_AI client may return (empty: no client, or the listing raised)
ModelLists == {<< >>, <<"m1", "m2">>}

FolderChoices == {"", "/out"}

FileChoices == {"", "k.txt"}

\* "1. Write Your Instructions Here", the text create_instructions_tab puts in the editor
PlaceholderText == <<"1">>

\* os.path.join(os.getcwd(), 'output')
default_output_folder_path == "cwd/output"

-----------------------------------------------------------------------------
(* The capability definitions of FunctionConfigManager.get_function_configs():
   function type -> list of FunctionConfig, in dict order. The name "f" is
   declared in both categories. *)

FunctionTypes == <<"system", "user">>

FunctionNames == [system |-> <<"f", "g">>, user |-> <<"f">>]

FunctionConfig(t, i) == [name |-> FunctionNames[t][i], function_type |-> t]

get_function_configs ==
    [t \in {FunctionTypes[k] : k \in 1..Len(FunctionTypes)} |-> [i \in 1..Len(FunctionNames[t]) |-> FunctionConfig(t, i)]]

\* FunctionConfig.get_full_spec(): the dict read back as f['function']['name']
get_full_spec(fc) ==
    [type |-> "function", function |-> [name |-> fc.name, description |-> fc.function_type]]

TypeSet == {FunctionTypes[k] : k \in 1..Len(FunctionTypes)}

KnownNames == UNION {{FunctionNames[t][i] : i \in 1..Len(FunctionNames[t])} : t \in TypeSet}

\* a stored selection entry naming a capability no definition declares
StaleSpec == [type |-> "function", function |-> [name |-> "h", description |-> "system"]]

-----------------------------------------------------------------------------
(* The profile store (AssistantConfigManager) *)

ProfileNames == <<"P1", "P2">>

\* selections a stored profile may hold: none, a known one, a stale one before a known one
StoredSelections ==
    { << >>,
      <<get_full_spec(FunctionConfig("system", 2))>>,
      <<get_full_spec(FunctionConfig("system", 1))>>,
      <<StaleSpec, get_full_spec(FunctionConfig("system", 2))>> }

StoredP1 ==
    { [name |-> "P1", assistant_id |-> "id1", instructions |-> <<"a">>, model |-> "m1",
       knowledge_files |-> [p \in {"k.txt"} |-> "file1"], selected_functions |-> sf,
       knowledge_retrieval |-> TRUE, code_interpreter |-> ci, output_folder_path |-> out,
       ai_client_type |-> "OPEN_AI", assistant_type |-> at] :
         sf \in StoredSelections, ci \in BOOLEAN, out \in {"", "/p1"}, at \in AssistantTypes }

StoredP2 ==
    { [name |-> "P2", assistant_id |-> "id2", instructions |-> <<"b">>, model |-> "m3",
       knowledge_files |-> EmptyDict, selected_functions |-> << >>,
       knowledge_retrieval |-> FALSE, code_interpreter |-> FALSE, output_folder_path |-> "/p2",
       ai_client_type |-> c, assistant_type |-> at] :
         c \in AIClientTypes, at \in AssistantTypes }

\* AssistantConfigManager.get_instance().get_config(name); acm is the store
\* the singleton holds
get_config(acm, name) == acm[name]

RECURSIVE names_from(_, _, _, _)
names_from(acm, k, client, atype) ==
    IF k > Len(ProfileNames) THEN << >>
    ELSE LET n == ProfileNames[k]
             rest == names_from(acm, k + 1, client, atype)
         IN IF acm[n].ai_client_type = client /\ acm[n].assistant_type = atype
            THEN <<n>> \o rest ELSE rest

\* get_assistant_names_by_client_type(client), kept when the profile's
\* assistant_type is the dialog's (ai_client_selection_changed, lines 281-288)
listed_assistant_names(acm, client, atype) == names_from(acm, 1, client, atype)

-----------------------------------------------------------------------------
(* Capability check boxes *)

\* functionConfig in self.selected_functions: the list holds get_full_spec()
\* dicts, the operand is the FunctionConfig object
object_in_list(functionConfig, list) ==
    \E k \in 1..Len(list) : list[k] = functionConfig

remove_by_name(list, name) == SelectSeq(list, LAMBDA f : f.function.name # name)

handle_function_selection(s, checked, functionConfig) ==
    IF checked
    THEN IF ~object_in_list(functionConfig, s.selected_functions)
         THEN [s EXCEPT !.selected_functions = Append(@, get_full_spec(functionConfig))]
         ELSE s
    ELSE [s EXCEPT !.selected_functions = remove_by_name(@, functionConfig.name)]

\* QCheckBox.setChecked on the check box create_function_section made for
\* funcs[i] of function_type t: stateChanged fires only when the state changes
function_setChecked(s, t, i, v) ==
    IF s.checkBoxes[t][i] = v THEN s
    ELSE handle_function_selection([s EXCEPT !.checkBoxes[t][i] = v], v,
                                   get_function_configs[t][i])

RECURSIVE uncheck_boxes(_, _, _)
uncheck_boxes(s, k, i) ==
    IF k > Len(FunctionTypes) THEN s
    ELSE IF i > Len(s.checkBoxes[FunctionTypes[k]]) THEN uncheck_boxes(s, k + 1, 1)
    ELSE uncheck_boxes(function_setChecked(s, FunctionTypes[k], i, FALSE), k, i + 1)

RECURSIVE check_boxes_named(_, _, _, _)
check_boxes_named(s, t, i, func_name) ==
    IF i > Len(s.checkBoxes[t]) THEN s
    ELSE check_boxes_named(
             IF FunctionNames[t][i] = func_name THEN function_setChecked(s, t, i, TRUE) ELSE s,
             t, i + 1, func_name)

RECURSIVE select_in_types(_, _, _)
select_in_types(s, k, func_name) ==
    IF k > Len(FunctionTypes) THEN s
    ELSE LET t == FunctionTypes[k]
             funcs == get_function_configs[t]
         IN select_in_types(
                IF \E j \in 1..Len(funcs) : funcs[j].name = func_name
                THEN check_boxes_named(s, t, 1, func_name) ELSE s,
                k + 1, func_name)

\* a reconciliation that gives up at the first stored entry it cannot place
RECURSIVE pre_select_until_unknown(_, _)
pre_select_until_unknown(s, n) ==
    LET stored == s.assistant_config[1].selected_functions
    IN IF n > Len(stored) \/ stored[n].function.name \notin KnownNames THEN s
       ELSE pre_select_until_unknown(select_in_types(s, 1, stored[n].function.name), n + 1)

RECURSIVE pre_select_from(_, _)
pre_select_from(s, n) ==
    LET stored == s.assistant_config[1].selected_functions
    IN IF n > Len(stored) THEN s
       ELSE pre_select_from(select_in_types(s, 1, stored[n].function.name), n + 1)

pre_select_functions(s) == pre_select_from(s, 1)

-----------------------------------------------------------------------------
(* Form widgets *)

\* QComboBox.setCurrentIndex(0) on the editable model box: the text becomes
\* the first item, or empty when the box has no items
model_setCurrentIndex0(s) ==
    [s EXCEPT !.modelComboBox =
        IF Len(s.modelComboBox_items) > 0 THEN s.modelComboBox_items[1] ELSE ""]

\* stateChanged lambda of knowledgeRetrievalCheckBox (line 267)
knowledgeRetrieval_setChecked(s, v) ==
    IF s.knowledgeRetrievalCheckBox = v THEN s
    ELSE [s EXCEPT !.knowledgeRetrievalCheckBox = v, !.knowledge_retrieval = v]

\* stateChanged lambda of codeInterpreterCheckBox (line 273)
codeInterpreter_setChecked(s, v) ==
    IF s.codeInterpreterCheckBox = v THEN s
    ELSE [s EXCEPT !.codeInterpreterCheckBox = v, !.code_interpreter = v]

\* stateChanged lambda of createAsNewCheckBox (line 192)
createAsNew_setChecked(s, v) ==
    IF s.createAsNewCheckBox = v THEN s
    ELSE [s EXCEPT !.createAsNewCheckBox = v, !.is_create = v]

reset_fields(s) ==
    LET s1 == model_setCurrentIndex0([s EXCEPT !.nameEdit = "", !.instructionsEdit = << >>])
        s2 == [s1 EXCEPT !.knowledge_files_dict = EmptyDict, !.knowledgeFileList = << >>]
        s3 == uncheck_boxes(s2, 1, 1)
        s4 == [s3 EXCEPT !.selected_functions = << >>,
                         !.knowledge_retrieval = FALSE,
                         !.code_interpreter = FALSE]
        s5 == IF s4.assistant_type = "assistant" THEN codeInterpreter_setChecked(s4, FALSE)
              ELSE s4
    IN [s5 EXCEPT !.outputFolderPathEdit = "", !.assistant_config = << >>]

RECURSIVE index_of(_, _, _)
index_of(items, text, k) ==
    IF k > Len(items) THEN 0
    ELSE IF items[k] = text THEN k ELSE index_of(items, text, k + 1)

RECURSIVE dict_keys(_, _)
dict_keys(d, order) ==
    IF order = << >> THEN << >>
    ELSE (IF Head(order) \in DOMAIN d THEN <<Head(order)>> ELSE << >>)
         \o dict_keys(d, Tail(order))

pre_load_assistant_config(s, name, acm) ==
    LET cfg == get_config(acm, name)
        s1 == [s EXCEPT !.assistant_config = <<cfg>>,
                        !.nameEdit = cfg.name,
                        !.assistant_id = cfg.assistant_id,
                        !.instructionsEdit = cfg.instructions]
        s2 == IF index_of(s1.modelComboBox_items, cfg.model, 1) > 0
              THEN [s1 EXCEPT !.modelComboBox = cfg.model]
              ELSE [s1 EXCEPT !.modelComboBox_items = Append(@, cfg.model),
                              !.modelComboBox = cfg.model]
        s3 == [s2 EXCEPT
                 !.knowledge_files_dict =
                     [p \in DOMAIN s2.knowledge_files_dict \cup DOMAIN cfg.knowledge_files |->
                        IF p \in DOMAIN cfg.knowledge_files THEN cfg.knowledge_files[p]
                        ELSE s2.knowledge_files_dict[p]],
                 !.knowledgeFileList = @ \o dict_keys(cfg.knowledge_files, <<"k.txt">>)]
        s4 == pre_select_functions(s3)
        s5 == knowledgeRetrieval_setChecked(
                  [s4 EXCEPT !.knowledge_retrieval = cfg.knowledge_retrieval],
                  cfg.knowledge_retrieval)
        s6 == [s5 EXCEPT !.code_interpreter = cfg.code_interpreter]
        s7 == IF s6.assistant_type = "assistant"
              THEN codeInterpreter_setChecked(s6, s6.code_interpreter) ELSE s6
    IN IF cfg.output_folder_path # ""
       THEN [s7 EXCEPT !.outputFolderPathEdit = cfg.output_folder_path]
       ELSE s7

assistant_selection_changed(s, acm) ==
    LET s1 == reset_fields(s)
        selected_assistant == s1.assistantComboBox
    IN IF selected_assistant = NewAssistant
       THEN [s1 EXCEPT !.is_create = TRUE,
                       !.nameEdit_enabled = TRUE,
                       !.createAsNewCheckBox_enabled = FALSE,
                       !.outputFolderPathEdit = default_output_folder_path]
       ELSE IF selected_assistant # ""
       THEN LET s2 == pre_load_assistant_config([s1 EXCEPT !.is_create = FALSE],
                                                selected_assistant, acm)
            IN [s2 EXCEPT !.createAsNewCheckBox_enabled = TRUE,
                          !.nameEdit_enabled = FALSE]
       ELSE s1

\* assistantComboBox.clear(): with items in the box the current index drops
\* to -1 and currentIndexChanged runs the handler on an empty current text
assistantComboBox_clear(s, acm) ==
    IF Len(s.assistantComboBox_items) = 0 THEN s
    ELSE assistant_selection_changed(
             [s EXCEPT !.assistantComboBox_items = << >>, !.assistantComboBox = ""], acm)

\* insertItem(0, "New Assistant") into the emptied box makes it the current item
assistantComboBox_insertNew(s, acm) ==
    assistant_selection_changed(
        [s EXCEPT !.assistantComboBox_items = <<NewAssistant>>,
                  !.assistantComboBox = NewAssistant], acm)

\* models: what ai_client.models.list() yields for OPEN_AI (empty when there
\* is no client or the listing raised); the first addItem becomes current
ai_client_selection_changed(s, models, acm) ==
    LET s1 == [s EXCEPT !.ai_client_type = s.aiClientComboBox]
        s2 == assistantComboBox_insertNew(assistantComboBox_clear(s1, acm), acm)
        s3 == [s2 EXCEPT !.assistantComboBox_items =
                   @ \o listed_assistant_names(acm, s1.ai_client_type, s1.assistant_type)]
        listed == IF s3.ai_client_type = "OPEN_AI" THEN models ELSE << >>
    IN [s3 EXCEPT !.modelComboBox_items = listed,
                  !.modelComboBox = IF Len(listed) > 0 THEN listed[1] ELSE ""]

select_output_folder_path(s, folderPath) ==
    IF folderPath # "" THEN [s EXCEPT !.outputFolderPathEdit = folderPath] ELSE s

\* returns <<dialog, title of the message box shown or "">>
add_file(s, filePath) ==
    IF filePath # ""
    THEN IF filePath \in DOMAIN s.knowledge_files_dict
         THEN <<s, "File Already Added">>
         ELSE <<[s EXCEPT !.knowledge_files_dict =
                      [p \in DOMAIN @ \cup {filePath} |->
                         IF p = filePath THEN None ELSE @[p]],
                  !.knowledgeFileList = Append(@, filePath)], "">>
    ELSE <<s, "">>

\* selected_rows: the rows of knowledgeFileList the user has selected
remove_file(s, selected_rows) ==
    IF selected_rows = {} THEN s
    ELSE LET gone == {s.knowledgeFileList[r] : r \in selected_rows}
         IN [s EXCEPT !.knowledge_files_dict = [p \in DOMAIN @ \ gone |-> @[p]],
                      !.knowledgeFileList = SelectSeq(@, LAMBDA p : p \notin gone)]

\* the config dict of save_configuration (lines 544-557)
config_of(s) ==
    [name |-> s.nameEdit,
     instructions |-> s.instructionsEdit,
     model |-> s.modelComboBox,
     assistant_id |-> IF ~s.is_create THEN s.assistant_id ELSE "",
     knowledge_files |-> s.knowledge_files_dict,
     selected_functions |-> s.selected_functions,
     knowledge_retrieval |-> s.knowledge_retrieval,
     code_interpreter |-> s.code_interpreter,
     output_folder_path |-> s.outputFolderPathEdit,
     ai_client_type |-> s.aiClientComboBox,
     assistant_type |-> s.assistant_type]

\* the required-field test written with "and", as its comment words it
missing_fields_all(config) ==
    config.name = "" /\ config.instructions = << >> /\ config.model = ""

missing_fields(config) ==
    config.name = "" \/ config.instructions = << >> \/ config.model = ""

\* returns <<dialog, title of the message box shown or "">>
save_configuration(s) ==
    LET config == config_of(s)
    IN IF missing_fields(config)
       THEN <<s, "Missing Fields">>
       ELSE <<[s EXCEPT !.assistant_config_json = <<config>>, !.accepted = TRUE], "">>

-----------------------------------------------------------------------------
(* Dictation bridge: the instructions editor newInstructionsEdit *)

\* start of the last occurrence of sep in text, 0 when it does not occur
last_index_of(text, sep) ==
    LET starts == {p \in 1..(Len(text) - Len(sep) + 1) :
                      SubSeq(text, p, p + Len(sep) - 1) = sep}
    IN IF starts = {} THEN 0 ELSE CHOOSE p \in starts : \A q \in starts : q <= p

\* str.rsplit(sep, 1)[0]
rsplit_head(text, sep) ==
    LET p == last_index_of(text, sep)
    IN IF p = 0 THEN text ELSE SubSeq(text, 1, p - 1)

\* QTextEdit.setPlainText: the text is replaced and the cursor returns to the start
setPlainText(s, text) == [s EXCEPT !.newInstructionsEdit = text, !.cursor = 0]

\* QTextEdit.insertPlainText: the text goes in at the cursor, the cursor ends after it
insertPlainText(s, text) ==
    [s EXCEPT !.newInstructionsEdit =
                  SubSeq(@, 1, s.cursor) \o text \o SubSeq(@, s.cursor + 1, Len(@)),
              !.cursor = @ + Len(text)]

\* QTextEdit.append: a new paragraph at the end of the document
append(s, text) ==
    [s EXCEPT !.newInstructionsEdit = IF @ = << >> THEN text ELSE @ \o <<NL>> \o text]

toggle_mic(s) == [s EXCEPT !.is_mic_on = ~@]

on_user_input(s, text) ==
    LET s1 == IF s.currentHypothesis # << >>
              THEN LET currentText == s.newInstructionsEdit
                       updatedText == rsplit_head(currentText, s.currentHypothesis) \o text
                   IN setPlainText(s, updatedText)
              ELSE insertPlainText(s, text)
    IN [s1 EXCEPT !.currentHypothesis = text]

on_user_input_complete(s, text) ==
    LET s1 == IF s.currentHypothesis # << >>
              THEN LET currentText == s.newInstructionsEdit
                       updatedText == rsplit_head(currentText, s.currentHypothesis)
                                          \o text \o <<NL>>
                   IN setPlainText(s, updatedText)
              ELSE append(s, text)
    IN [s1 EXCEPT !.currentHypothesis = << >>, !.cursor = Len(s1.newInstructionsEdit)]

on_tab_changed(s, index) ==
    LET s1 == IF s.is_mic_on THEN toggle_mic(s) ELSE s
        s2 == [s1 EXCEPT !.tab = index]
    IN IF index = 2 THEN setPlainText(s2, s2.instructionsEdit) ELSE s2

save_instructions(s) == [s EXCEPT !.instructionsEdit = s.newInstructionsEdit]

-----------------------------------------------------------------------------
(* Construction *)

\* the dialog after init_variables, init_speech_input and the create_*_tab
\* calls of init_ui, before init_ui calls ai_client_selection_changed
constructed(assistant_type, active_ai_client_type) ==
    [assistant_type |-> assistant_type,
     ai_client_type |-> active_ai_client_type,
     aiClientComboBox |-> active_ai_client_type,
     assistantComboBox_items |-> << >>,
     assistantComboBox |-> "",
     nameEdit |-> "",
     nameEdit_enabled |-> TRUE,
     instructionsEdit |-> << >>,
     modelComboBox_items |-> << >>,
     modelComboBox |-> "",
     is_create |-> FALSE,
     createAsNewCheckBox |-> FALSE,
     createAsNewCheckBox_enabled |-> TRUE,
     outputFolderPathEdit |-> default_output_folder_path,
     knowledge_files_dict |-> EmptyDict,
     knowledgeFileList |-> << >>,
     selected_functions |-> << >>,
     checkBoxes |-> [t \in TypeSet |-> [i \in 1..Len(FunctionNames[t]) |-> FALSE]],
     knowledge_retrieval |-> FALSE,
     knowledgeRetrievalCheckBox |-> FALSE,
     code_interpreter |-> FALSE,
     codeInterpreterCheckBox |-> FALSE,
     assistant_id |-> "",
     assistant_config |-> << >>,
     is_mic_on |-> FALSE,
     currentHypothesis |-> << >>,
     newInstructionsEdit |-> PlaceholderText,
     cursor |-> 0,
     tab |-> 0,
     assistant_config_json |-> << >>,
     accepted |-> FALSE]

\* what the store may hold when the dialog opens
Stores == {[n \in {"P1", "P2"} |-> IF n = "P1" THEN a ELSE b] : a \in StoredP1, b \in StoredP2}

-----------------------------------------------------------------------------
(* Files on disk: a function from the paths that exist to their contents.  A
   path is the tuple of its components and a content a sequence of tokens. *)

NoFiles == [path \in {} |-> << >>]

Directory == <<"<dir>">>

exists(fsys, path) == path \in DOMAIN fsys

write(fsys, path, content) ==
    [q \in DOMAIN fsys \cup {path} |-> IF q = path THEN content ELSE fsys[q]]

join(path, name) == path \o <<name>>

\* os.makedirs(path, exist_ok=True): the directory and each missing parent
RECURSIVE makedirs(_, _)
makedirs(fsys, path) ==
    IF path = << >> \/ exists(fsys, path) THEN fsys
    ELSE write(makedirs(fsys, SubSeq(path, 1, Len(path) - 1)), path, Directory)

\* f"{assistant_name}_assistant_config.json"
config_file_name(assistant_name) ==
    IF assistant_name = "P1" THEN "P1_assistant_config.json" ELSE "P2_assistant_config.json"

config_src(assistant_name) == <<"config", config_file_name(assistant_name)>>
error_specs_src == <<"config", "function_error_specs.json">>
user_functions_src == <<"functions", "user_functions.py">>
template_path == <<"templates", "main_template.py">>

export_path(assistant_name) == <<"export", assistant_name>>
config_path(assistant_name) == join(export_path(assistant_name), "config")
functions_path(assistant_name) == join(export_path(assistant_name), "functions")
main_path(assistant_name) == join(export_path(assistant_name), "main.py")

\* str.replace on a token sequence
replace(content, old, new) ==
    [k \in 1..Len(content) |-> IF content[k] = old THEN new ELSE content[k]]

\* a copy step that passes over a missing source file
copy_config_files_lenient(fsys, assistant_name) ==
    LET dst1 == join(config_path(assistant_name), config_file_name(assistant_name))
        dst2 == join(config_path(assistant_name), "function_error_specs.json")
        f1 == IF exists(fsys, config_src(assistant_name))
              THEN write(fsys, dst1, fsys[config_src(assistant_name)]) ELSE fsys
    IN [fs |-> IF exists(f1, error_specs_src) THEN write(f1, dst2, f1[error_specs_src]) ELSE f1,
        ok |-> TRUE]

\* the first try block of export_assistant; ok is FALSE when a copy raised
\* FileNotFoundError, and what was copied before it stays
copy_config_files(fsys, assistant_name) ==
    LET dst1 == join(config_path(assistant_name), config_file_name(assistant_name))
        dst2 == join(config_path(assistant_name), "function_error_specs.json")
    IN IF ~exists(fsys, config_src(assistant_name)) THEN [fs |-> fsys, ok |-> FALSE]
       ELSE LET f1 == write(fsys, dst1, fsys[config_src(assistant_name)])
            IN IF ~exists(f1, error_specs_src) THEN [fs |-> f1, ok |-> FALSE]
               ELSE [fs |-> write(f1, dst2, f1[error_specs_src]), ok |-> TRUE]

\* user_functions.py is copied when it is there
copy_user_functions(fsys, assistant_name) ==
    IF exists(fsys, user_functions_src)
    THEN write(fsys, join(functions_path(assistant_name), "user_functions.py"),
               fsys[user_functions_src])
    ELSE fsys

\* a launcher step whose failure goes unnoticed
create_main_unchecked(fsys, assistant_name, writable) ==
    IF ~exists(fsys, template_path) \/ ~writable THEN [fs |-> fsys, ok |-> TRUE]
    ELSE [fs |-> write(fsys, main_path(assistant_name),
                       replace(fsys[template_path], "ASSISTANT_NAME", assistant_name)),
          ok |-> TRUE]

\* the second try block; writable is whether main.py can be opened for writing
create_main(fsys, assistant_name, writable) ==
    IF ~exists(fsys, template_path) \/ ~writable THEN [fs |-> fsys, ok |-> FALSE]
    ELSE [fs |-> write(fsys, main_path(assistant_name),
                       replace(fsys[template_path], "ASSISTANT_NAME", assistant_name)),
          ok |-> TRUE]

\* ExportAssistantDialog.__init__
ExportAssistantDialog ==
    [assistant_combo_items |-> ProfileNames,
     assistant_combo |-> ProfileNames[1],
     accepted |-> FALSE]

\* the handler of the Export button: the dialog, the files and the message box after it
export_assistant(s, fsys, writable) ==
    LET assistant_name == s.assistant_combo
        dirs == makedirs(makedirs(fsys, config_path(assistant_name)),
                         functions_path(assistant_name))
        copied == copy_config_files(dirs, assistant_name)
        main == create_main(copy_user_functions(copied.fs, assistant_name), assistant_name,
                            writable)
    IN IF ~copied.ok THEN [dlg |-> s, fs |-> copied.fs, message |-> "Export Failed"]
       ELSE IF ~main.ok THEN [dlg |-> s, fs |-> main.fs, message |-> "Export Failed"]
       ELSE [dlg |-> [s EXCEPT !.accepted = TRUE], fs |-> main.fs,
             message |-> "Export Successful"]

\* no export dialog has been opened and no file matters
NoExportDialog == fs = NoFiles /\ exportDlg = << >>

-----------------------------------------------------------------------------
(* Instructions review: check_instructions starts one thread per request, the
   thread runs _check_instructions, and its signals are queued to the UI
   thread, which handles them one at a time in the order they were posted *)

Requests == 1..MaxRequests

\* a thread that has not been started yet
NotStarted == [pc |-> "unstarted", instructions |-> << >>, outcome |-> "none"]

\* what the reviewer answers to a request; answers to different requests differ
process_messages(request, instructions) == <<"reviewed", request, instructions>>

\* Signal.emit from a thread: the event joins the UI thread's queue
emit(queue, signal, request) == Append(queue, [signal |-> signal, request |-> request])

\* a worker whose stop signal is emitted only when nothing was raised
after_except_skipping_finally == "done"

\* where _check_instructions goes on after its except clause
after_except == "finally"

\* no review has been requested
NoReview ==
    /\ workers = [w \in Requests |-> NotStarted]
    /\ uiQueue = << >>
    /\ uiLog = << >>
    /\ reviewed_instructions = << >>

\* The main window passes its FunctionConfigManager to the dialog, so the
\* check boxes of create_tools_tab exist for every declared capability.
Init ==
    /\ configs \in Stores
    /\ \E at \in AssistantTypes, c \in AIClientTypes, models \in ModelLists :
          dlg = ai_client_selection_changed(constructed(at, c), models, configs)
    /\ messageBox = ""
    /\ NoExportDialog /\ NoReview

-----------------------------------------------------------------------------
(* User and recogniser events; the dialog takes none once it is accepted *)

\* General tab
AiClientChanged ==
    /\ ~dlg.accepted /\ dlg.tab = 0
    /\ \E c \in AIClientTypes \ {dlg.aiClientComboBox}, models \in ModelLists :
          dlg' = ai_client_selection_changed([dlg EXCEPT !.aiClientComboBox = c], models,
                                              configs)
    /\ UNCHANGED <<configs, messageBox, exportVars, reviewVars>>

AssistantSelected ==
    /\ ~dlg.accepted /\ dlg.tab = 0
    /\ \E k \in 1..Len(dlg.assistantComboBox_items) :
          /\ dlg.assistantComboBox_items[k] # dlg.assistantComboBox
          /\ dlg' = assistant_selection_changed(
                        [dlg EXCEPT !.assistantComboBox = dlg.assistantComboBox_items[k]],
                        configs)
    /\ UNCHANGED <<configs, messageBox, exportVars, reviewVars>>

EditName ==
    /\ ~dlg.accepted /\ dlg.tab = 0 /\ dlg.nameEdit_enabled
    /\ \E n \in TypedNames : dlg' = [dlg EXCEPT !.nameEdit = n]
    /\ UNCHANGED <<configs, messageBox, exportVars, reviewVars>>

EditInstructions ==
    /\ ~dlg.accepted /\ dlg.tab = 0
    /\ \E t \in TypedInstructions : dlg' = [dlg EXCEPT !.instructionsEdit = t]
    /\ UNCHANGED <<configs, messageBox, exportVars, reviewVars>>

EditModel ==
    /\ ~dlg.accepted /\ dlg.tab = 0
    /\ \E m \in TypedModels : dlg' = [dlg EXCEPT !.modelComboBox = m]
    /\ UNCHANGED <<configs, messageBox, exportVars, reviewVars>>

ToggleCreateAsNew ==
    /\ ~dlg.accepted /\ dlg.tab = 0 /\ dlg.createAsNewCheckBox_enabled
    /\ dlg' = createAsNew_setChecked(dlg, ~dlg.createAsNewCheckBox)
    /\ UNCHANGED <<configs, messageBox, exportVars, reviewVars>>

SelectOutputFolder ==
    /\ ~dlg.accepted /\ dlg.tab = 0
    /\ \E folderPath \in FolderChoices : dlg' = select_output_folder_path(dlg, folderPath)
    /\ UNCHANGED <<configs, messageBox, exportVars, reviewVars>>

SaveConfiguration ==
    /\ ~dlg.accepted /\ dlg.tab = 0
    /\ dlg' = save_configuration(dlg)[1]
    /\ messageBox' = save_configuration(dlg)[2]
    /\ UNCHANGED <<configs, exportVars, reviewVars>>

\* Tools tab
ToggleFunction ==
    /\ ~dlg.accepted /\ dlg.tab = 1
    /\ \E t \in TypeSet : \E i \in 1..Len(dlg.checkBoxes[t]) :
          dlg' = function_setChecked(dlg, t, i, ~dlg.checkBoxes[t][i])
    /\ UNCHANGED <<configs, messageBox, exportVars, reviewVars>>

ToggleKnowledgeRetrieval ==
    /\ ~dlg.accepted /\ dlg.tab = 1
    /\ dlg' = knowledgeRetrieval_setChecked(dlg, ~dlg.knowledgeRetrievalCheckBox)
    /\ UNCHANGED <<configs, messageBox, exportVars, reviewVars>>

ToggleCodeInterpreter ==
    /\ ~dlg.accepted /\ dlg.tab = 1 /\ dlg.assistant_type = "assistant"
    /\ dlg' = codeInterpreter_setChecked(dlg, ~dlg.codeInterpreterCheckBox)
    /\ UNCHANGED <<configs, messageBox, exportVars, reviewVars>>

AddFile ==
    /\ ~dlg.accepted /\ dlg.tab = 1
    /\ \E filePath \in FileChoices :
          /\ dlg' = add_file(dlg, filePath)[1]
          /\ messageBox' = add_file(dlg, filePath)[2]
    /\ UNCHANGED <<configs, exportVars, reviewVars>>

RemoveFile ==
    /\ ~dlg.accepted /\ dlg.tab = 1
    /\ \E rows \in {{}} \cup {{r} : r \in 1..Len(dlg.knowledgeFileList)} :
          dlg' = remove_file(dlg, rows)
    /\ UNCHANGED <<configs, messageBox, exportVars, reviewVars>>

\* Instructions Editor tab
ToggleMic ==
    /\ ~dlg.accepted /\ dlg.tab = 2
    /\ dlg' = toggle_mic(dlg)
    /\ UNCHANGED <<configs, messageBox, exportVars, reviewVars>>

\* update_signal of the speech handler: a partial result, while listening
OnUserInput ==
    /\ ~dlg.accepted /\ dlg.is_mic_on
    /\ \E text \in SpokenTexts :
          /\ Len(on_user_input(dlg, text).newInstructionsEdit) <= MaxLen
          /\ dlg' = on_user_input(dlg, text)
    /\ UNCHANGED <<configs, messageBox, exportVars, reviewVars>>

\* send_signal of the speech handler: a final result, while listening
OnUserInputComplete ==
    /\ ~dlg.accepted /\ dlg.is_mic_on
    /\ \E text \in SpokenTexts :
          /\ Len(on_user_input_complete(dlg, text).newInstructionsEdit) <= MaxLen
          /\ dlg' = on_user_input_complete(dlg, text)
    /\ UNCHANGED <<configs, messageBox, exportVars, reviewVars>>

SaveInstructions ==
    /\ ~dlg.accepted /\ dlg.tab = 2
    /\ dlg' = save_instructions(dlg)
    /\ UNCHANGED <<configs, messageBox, exportVars, reviewVars>>

TabChanged ==
    /\ ~dlg.accepted
    /\ \E index \in {0, 1, 2} \ {dlg.tab} : dlg' = on_tab_changed(dlg, index)
    /\ UNCHANGED <<configs, messageBox, exportVars, reviewVars>>

Next ==
    \/ AiClientChanged \/ AssistantSelected \/ EditName \/ EditInstructions \/ EditModel
    \/ ToggleCreateAsNew \/ SelectOutputFolder \/ SaveConfiguration
    \/ ToggleFunction \/ ToggleKnowledgeRetrieval \/ ToggleCodeInterpreter
    \/ AddFile \/ RemoveFile
    \/ ToggleMic \/ OnUserInput \/ OnUserInputComplete \/ SaveInstructions
    \/ TabChanged

Spec == Init /\ [][Next]_vars

-----------------------------------------------------------------------------
(* The General tab: the profile fields and the save *)

\* stores that differ in what the General tab shows of them
StoresGeneral ==
    {st \in Stores : /\ st["P1"].code_interpreter
                     /\ st["P1"].assistant_type = "assistant"
                     /\ st["P2"].assistant_type = "assistant"}

InitGeneral ==
    /\ configs \in StoresGeneral
    /\ \E at \in AssistantTypes, c \in AIClientTypes, models \in ModelLists :
          dlg = ai_client_selection_changed(constructed(at, c), models, configs)
    /\ messageBox = ""
    /\ NoExportDialog /\ NoReview

NextGeneral ==
    \/ AiClientChanged \/ AssistantSelected \/ EditName \/ EditInstructions \/ EditModel
    \/ ToggleCreateAsNew \/ SelectOutputFolder \/ SaveConfiguration

SpecGeneral == InitGeneral /\ [][NextGeneral]_vars

-----------------------------------------------------------------------------
(* The Tools tab: capability check boxes, knowledge files, tool switches,
   with the profile loads of the General tab *)

StoresTools ==
    {st \in Stores : /\ st["P1"].output_folder_path = "/p1"
                     /\ st["P1"].selected_functions # << >>
                     /\ st["P1"].code_interpreter
                     /\ st["P1"].assistant_type = "assistant"
                     /\ st["P2"].ai_client_type = "OPEN_AI"
                     /\ st["P2"].assistant_type = "assistant"}

InitTools ==
    /\ configs \in StoresTools
    /\ \E at \in AssistantTypes :
          dlg = ai_client_selection_changed(constructed(at, "OPEN_AI"), <<"m1", "m2">>, configs)
    /\ messageBox = ""
    /\ NoExportDialog /\ NoReview

NextTools ==
    \/ AiClientChanged \/ AssistantSelected
    \/ ToggleFunction \/ ToggleKnowledgeRetrieval \/ ToggleCodeInterpreter
    \/ AddFile \/ RemoveFile
    \/ TabChanged

SpecTools == InitTools /\ [][NextTools]_vars

-----------------------------------------------------------------------------
(* The Instructions Editor tab: dictation, with the profile switches and the
   instructions field of the General tab *)

StoresDictation ==
    {st \in StoresTools : st["P1"].selected_functions =
                               <<get_full_spec(FunctionConfig("system", 2))>>}

InitDictation ==
    /\ configs \in StoresDictation
    /\ dlg = ai_client_selection_changed(constructed("assistant", "OPEN_AI"), <<"m1", "m2">>,
                                         configs)
    /\ messageBox = ""
    /\ NoExportDialog /\ NoReview

NextDictation ==
    \/ ToggleMic \/ OnUserInput \/ OnUserInputComplete \/ SaveInstructions
    \/ TabChanged \/ AssistantSelected \/ EditInstructions

SpecDictation == InitDictation /\ [][NextDictation]_vars

-----------------------------------------------------------------------------
(* The export dialog and the files of the working directory *)

SourceFiles == {config_src("P1"), config_src("P2"), error_specs_src, user_functions_src,
                template_path}

SourceContent(path) ==
    IF path = template_path THEN <<"ASSISTANT_NAME", "=", "ASSISTANT_NAME">>
    ELSE path

\* the working directory with some of the files an export reads
SourceTrees == {[path \in present |-> SourceContent(path)] : present \in SUBSET SourceFiles}

\* the main window opens the dialog, again after an export closed it
OpenExportDialog ==
    /\ IF exportDlg = << >> THEN TRUE ELSE exportDlg[1].accepted
    /\ exportDlg' = <<ExportAssistantDialog>>
    /\ UNCHANGED <<dlg, configs, messageBox, fs, reviewVars>>

SelectExportAssistant ==
    /\ exportDlg # << >> /\ ~exportDlg[1].accepted
    /\ \E k \in 1..Len(exportDlg[1].assistant_combo_items) :
          /\ exportDlg[1].assistant_combo_items[k] # exportDlg[1].assistant_combo
          /\ exportDlg' = <<[exportDlg[1] EXCEPT
                                !.assistant_combo = exportDlg[1].assistant_combo_items[k]]>>
    /\ UNCHANGED <<dlg, configs, messageBox, fs, reviewVars>>

ExportAssistant ==
    /\ exportDlg # << >> /\ ~exportDlg[1].accepted
    /\ \E writable \in BOOLEAN :
          LET result == export_assistant(exportDlg[1], fs, writable)
          IN /\ exportDlg' = <<result.dlg>>
             /\ fs' = result.fs
             /\ messageBox' = result.message
    /\ UNCHANGED <<dlg, configs, reviewVars>>

InitExport ==
    /\ configs \in StoresDictation
    /\ dlg = ai_client_selection_changed(constructed("assistant", "OPEN_AI"), <<"m1", "m2">>,
                                         configs)
    /\ messageBox = ""
    /\ fs \in SourceTrees
    /\ exportDlg = << >>
    /\ NoReview

NextExport == OpenExportDialog \/ SelectExportAssistant \/ ExportAssistant

SpecExport == InitExport /\ [][NextExport]_vars

-----------------------------------------------------------------------------
(* The instructions review: the button, the threads and the UI thread's slots *)

\* the 'Review Instructions with AI...' button starts a thread for the next request
CheckInstructions ==
    /\ ~dlg.accepted /\ dlg.tab = 2
    /\ \E w \in Requests :
          /\ workers[w].pc = "unstarted"
          /\ \A v \in 1..(w - 1) : workers[v].pc # "unstarted"
          /\ workers' = [workers EXCEPT ![w].pc = "start"]
    /\ UNCHANGED <<dlg, configs, messageBox, exportVars, uiQueue, uiLog,
                   reviewed_instructions>>

\* _check_instructions: the start signal
WorkerEmitStart(w) ==
    /\ workers[w].pc = "start"
    /\ uiQueue' = emit(uiQueue, "start", w)
    /\ workers' = [workers EXCEPT ![w].pc = "read"]
    /\ UNCHANGED <<dlg, configs, messageBox, exportVars, uiLog, reviewed_instructions>>

\* _check_instructions: the thread reads the editor
WorkerRead(w) ==
    /\ workers[w].pc = "read"
    /\ workers' = [workers EXCEPT ![w].pc = "call",
                                  ![w].instructions = dlg.newInstructionsEdit]
    /\ UNCHANGED <<dlg, configs, messageBox, exportVars, uiQueue, uiLog,
                   reviewed_instructions>>

\* _check_instructions: the reviewer returns and the answer is stored in the dialog
WorkerReturn(w) ==
    /\ workers[w].pc = "call"
    /\ reviewed_instructions' = <<process_messages(w, workers[w].instructions)>>
    /\ workers' = [workers EXCEPT ![w].pc = "finally", ![w].outcome = "returned"]
    /\ UNCHANGED <<dlg, configs, messageBox, exportVars, uiQueue, uiLog>>

\* _check_instructions: the reviewer raises and the except clause emits the error
WorkerRaise(w) ==
    /\ workers[w].pc = "call"
    /\ uiQueue' = emit(uiQueue, "error", w)
    /\ workers' = [workers EXCEPT ![w].pc = after_except, ![w].outcome = "raised"]
    /\ UNCHANGED <<dlg, configs, messageBox, exportVars, uiLog, reviewed_instructions>>

\* _check_instructions: the finally clause emits the stop signal
WorkerEmitStop(w) ==
    /\ workers[w].pc = "finally"
    /\ uiQueue' = emit(uiQueue, "stop", w)
    /\ workers' = [workers EXCEPT ![w].pc = "done"]
    /\ UNCHANGED <<dlg, configs, messageBox, exportVars, uiLog, reviewed_instructions>>

Worker(w) ==
    \/ WorkerEmitStart(w) \/ WorkerRead(w) \/ WorkerReturn(w) \/ WorkerRaise(w)
    \/ WorkerEmitStop(w)

\* what the UI thread notes of an event it has handled
Handled(event, shown) ==
    [signal |-> event.signal, request |-> event.request, shown |-> shown]

\* the UI thread runs start_processing for the start signal at the head of its queue
StartProcessing ==
    /\ uiQueue # << >> /\ Head(uiQueue).signal = "start"
    /\ uiQueue' = Tail(uiQueue)
    /\ uiLog' = Append(uiLog, Handled(Head(uiQueue), << >>))
    /\ UNCHANGED <<dlg, configs, messageBox, exportVars, workers, reviewed_instructions>>

\* the UI thread runs stop_processing: it shows reviewed_instructions as it is
\* now, or logs the error of reading an attribute no thread has set yet
StopProcessing ==
    /\ uiQueue # << >> /\ Head(uiQueue).signal = "stop"
    /\ uiQueue' = Tail(uiQueue)
    /\ uiLog' = Append(uiLog, Handled(Head(uiQueue), reviewed_instructions))
    /\ UNCHANGED <<dlg, configs, messageBox, exportVars, workers, reviewed_instructions>>

\* the UI thread runs the slot of error_signal
ShowError ==
    /\ uiQueue # << >> /\ Head(uiQueue).signal = "error"
    /\ uiQueue' = Tail(uiQueue)
    /\ uiLog' = Append(uiLog, Handled(Head(uiQueue), << >>))
    /\ messageBox' = "Error"
    /\ UNCHANGED <<dlg, configs, exportVars, workers, reviewed_instructions>>

InitReview ==
    /\ configs \in StoresDictation
    /\ dlg = ai_client_selection_changed(constructed("assistant", "OPEN_AI"), <<"m1", "m2">>,
                                         configs)
    /\ messageBox = ""
    /\ NoExportDialog /\ NoReview

NextReview ==
    \/ TabChanged \/ CheckInstructions
    \/ \E w \in Requests : Worker(w)
    \/ StartProcessing \/ StopProcessing \/ ShowError

SpecReview == InitReview /\ [][NextReview]_vars

-----------------------------------------------------------------------------
(* Properties *)

\* how often the UI thread has handled a signal of a request
Count(log, signal, w) ==
    Cardinality({k \in 1..Len(log) : log[k].signal = signal /\ log[k].request = w})

Pending(w) == \E k \in 1..Len(uiQueue) : uiQueue[k].request = w

\* the file at a path, or nothing
FileAt(fsys, path) == IF exists(fsys, path) THEN <<fsys[path]>> ELSE << >>

ExportName == exportDlg[1].assistant_combo

Names(list) == {list[k].function.name : k \in 1..Len(list)}

EndsWith(text, suffix) ==
    /\ Len(suffix) <= Len(text)
    /\ SubSeq(text, Len(text) - Len(suffix) + 1, Len(text)) = suffix

Occurs(text, h) == last_index_of(text, h) > 0

\* text with its last occurrence of h replaced by new, the rest kept
ReplaceLast(text, h, new) ==
    LET p == last_index_of(text, h)
    IN SubSeq(text, 1, p - 1) \o new \o SubSeq(text, p + Len(h), Len(text))

Loaded(s) == s.assistant_config # << >>

\* C1: a save with an empty name, empty instructions or an empty model changes
\* nothing of the dialog (no document, not accepted, every field as it was);
\* a document is written and the dialog accepted only by a step that starts
\* with all three non-empty.
C1_SaveNeedsRequiredFields ==
    [][ /\ (SaveConfiguration /\ (dlg.nameEdit = "" \/ dlg.instructionsEdit = << >>
                                    \/ dlg.modelComboBox = ""))
           => dlg' = dlg
        /\ (dlg'.assistant_config_json # dlg.assistant_config_json \/ dlg'.accepted # dlg.accepted)
           => /\ dlg.nameEdit # "" /\ dlg.instructionsEdit # << >> /\ dlg.modelComboBox # ""
              /\ dlg'.accepted
              /\ dlg'.assistant_config_json = <<config_of(dlg)>> ]_vars

\* a save was refused for empty instructions although a name was given
C1_Witness ==
    /\ messageBox = "Missing Fields"
    /\ ~dlg.accepted /\ dlg.assistant_config_json = << >>
    /\ dlg.nameEdit # "" /\ dlg.modelComboBox # "" /\ dlg.instructionsEdit = << >>

\* C2: a document saved while "New Assistant" is selected or the "Create as
\* New Assistant" box is checked has an empty assistant_id.
C2_NewProfileHasNoId ==
    (dlg.accepted /\ (dlg.assistantComboBox = NewAssistant \/ dlg.createAsNewCheckBox))
        => dlg.assistant_config_json[1].assistant_id = ""

\* C3: save, load the saved document back through the assistant selection,
\* save again: the second document equals the first in every field (knowledge
\* file ids that were unresolved at the first save aside).
C3_SaveLoadSave ==
    LET d1 == config_of(dlg)
        acm == [n \in DOMAIN configs \cup {d1.name} |-> IF n = d1.name THEN d1 ELSE configs[n]]
        reloaded == assistant_selection_changed([dlg EXCEPT !.assistantComboBox = d1.name], acm)
        d2 == config_of(reloaded)
    IN ~(d1.name = "" \/ d1.instructions = << >> \/ d1.model = "")
       => /\ d2.name = d1.name /\ d2.instructions = d1.instructions /\ d2.model = d1.model
          /\ d2.assistant_id = d1.assistant_id
          /\ DOMAIN d2.knowledge_files = DOMAIN d1.knowledge_files
          /\ \A f \in DOMAIN d1.knowledge_files :
                d1.knowledge_files[f] # None => d2.knowledge_files[f] = d1.knowledge_files[f]
          /\ d2.selected_functions = d1.selected_functions
          /\ d2.knowledge_retrieval = d1.knowledge_retrieval
          /\ d2.code_interpreter = d1.code_interpreter
          /\ d2.output_folder_path = d1.output_folder_path
          /\ d2.ai_client_type = d1.ai_client_type
          /\ d2.assistant_type = d1.assistant_type

\* C4: selecting a stored profile whose output_folder_path is empty leaves the
\* output folder field at the default output directory, which is what a save
\* would then write.
C4_EmptyOutputFallsBackToDefault ==
    [][ (AssistantSelected /\ Loaded(dlg') /\ dlg'.assistant_config[1].output_folder_path = "")
        => /\ dlg'.outputFolderPathEdit = default_output_folder_path
           /\ config_of(dlg').output_folder_path = default_output_folder_path ]_vars

\* C5: after a profile switch no hypothesis is pending, the editor no longer
\* ends with the hypothesis that was pending before the switch, and the
\* selection holds only capabilities the new profile names (none for "New
\* Assistant").
C5_SwitchDropsTransientState ==
    [][ AssistantSelected
        => /\ dlg'.currentHypothesis = << >>
           /\ dlg.currentHypothesis # << >>
                 => ~EndsWith(dlg'.newInstructionsEdit, dlg.currentHypothesis)
           /\ Names(dlg'.selected_functions) \subseteq
                 (IF Loaded(dlg') THEN Names(dlg'.assistant_config[1].selected_functions)
                  ELSE {}) ]_vars

\* C6: the selection never holds two entries with the same capability name.
C6_OneEntryPerName ==
    \A j, k \in 1..Len(dlg.selected_functions) :
        dlg.selected_functions[j].function.name = dlg.selected_functions[k].function.name
            => j = k

C8_PartialReplacesLastOccurrence ==
    [][ OnUserInput
        => LET text == dlg'.currentHypothesis
               h == dlg.currentHypothesis
           IN /\ text \in SpokenTexts
              /\ (h # << >> /\ Occurs(dlg.newInstructionsEdit, h))
                    => dlg'.newInstructionsEdit = ReplaceLast(dlg.newInstructionsEdit, h, text)
              /\ h = << >> => dlg'.newInstructionsEdit = dlg.newInstructionsEdit \o text ]_vars

\* C9: after a final result the editor ends with the result followed by a line
\* break and no hypothesis is pending, whether or not one was pending before.
C9_FinalEndsWithLineBreak ==
    [][ OnUserInputComplete
        => /\ dlg'.currentHypothesis = << >>
           /\ \E text \in SpokenTexts :
                 /\ dlg' = on_user_input_complete(dlg, text)
                 /\ EndsWith(dlg'.newInstructionsEdit, text \o <<NL>>) ]_vars

\* C10: the editor always shows the confirmed text followed by the pending
\* hypothesis, and a partial result arriving while one is displayed takes its
\* place instead of following it.
C10_BufferIsConfirmedPlusHypothesis ==
    [][ /\ EndsWith(dlg'.newInstructionsEdit, dlg'.currentHypothesis)
        /\ (OnUserInput /\ dlg.currentHypothesis # << >>
              /\ EndsWith(dlg.newInstructionsEdit, dlg.currentHypothesis))
           => dlg'.newInstructionsEdit =
                 SubSeq(dlg.newInstructionsEdit, 1,
                        Len(dlg.newInstructionsEdit) - Len(dlg.currentHypothesis))
                 \o dlg'.currentHypothesis ]_vars

\* C16: whatever profiles are selected, clients changed and boxes clicked, the
\* knowledge_retrieval value a save would write is the checked state of the
\* 'Enable Knowledge Retrieval' check box.
C16_SavedRetrievalIsTheCheckBox ==
    config_of(dlg).knowledge_retrieval = dlg.knowledgeRetrievalCheckBox

\* C11: an export whose source configuration file is missing creates the
\* config and functions directories, reports an export failure, and stops
\* there: nothing is copied, user_functions.py and main.py are left as they
\* were, and the dialog is not accepted.
C11_MissingConfigStopsExport ==
    [][ (ExportAssistant /\ ~exists(fs, config_src(ExportName)))
        => /\ exists(fs', config_path(ExportName))
           /\ exists(fs', functions_path(ExportName))
           /\ messageBox' = "Export Failed"
           /\ exportDlg' = exportDlg
           /\ \A file \in {join(config_path(ExportName), config_file_name(ExportName)),
                           join(config_path(ExportName), "function_error_specs.json"),
                           join(functions_path(ExportName), "user_functions.py"),
                           main_path(ExportName)} :
                 FileAt(fs', file) = FileAt(fs, file) ]_vars

C11_Witness ==
    /\ exportDlg # << >> /\ ~exportDlg[1].accepted
    /\ messageBox = "Export Failed"
    /\ ~exists(fs, config_src(ExportName))
    /\ exists(fs, error_specs_src) /\ exists(fs, user_functions_src)
    /\ exists(fs, template_path)
    /\ exists(fs, functions_path(ExportName))
    /\ ~exists(fs, main_path(ExportName))

\* C12 as stated: once an export has reported success, the profile's
\* configuration file, function_error_specs.json, user_functions.py and main.py
\* all exist under the export root.
C12_SuccessHasAllFour ==
    (exportDlg # << >> /\ exportDlg[1].accepted)
    => /\ exists(fs, join(config_path(ExportName), config_file_name(ExportName)))
       /\ exists(fs, join(config_path(ExportName), "function_error_specs.json"))
       /\ exists(fs, join(functions_path(ExportName), "user_functions.py"))
       /\ exists(fs, main_path(ExportName))

\* C12 amended: once an export has reported success, the profile's
\* configuration file, function_error_specs.json and main.py exist under the
\* export root, and user_functions.py exists there when the working directory
\* has one.
C12_SuccessHasRequiredAndOffered ==
    (exportDlg # << >> /\ exportDlg[1].accepted)
    => /\ messageBox = "Export Successful"
       /\ exists(fs, join(config_path(ExportName), config_file_name(ExportName)))
       /\ exists(fs, join(config_path(ExportName), "function_error_specs.json"))
       /\ exists(fs, main_path(ExportName))
       /\ exists(fs, user_functions_src)
             => exists(fs, join(functions_path(ExportName), "user_functions.py"))

C12_Witness ==
    /\ exportDlg # << >> /\ exportDlg[1].accepted
    /\ messageBox = "Export Successful"
    /\ ~exists(fs, user_functions_src)
    /\ FileAt(fs, main_path(ExportName)) = <<<<ExportName, "=", ExportName>>>>

\* C13: for each review request, whatever the interleaving with other requests
\* and whether the reviewer returned or raised, the UI thread handles at most
\* one start and one stop notification, a stop only after the start, and
\* exactly one of each once the request's thread has ended and its events are
\* handled.
C13_OneStartThenOneStop ==
    \A w \in Requests :
        /\ Count(uiLog, "start", w) <= 1
        /\ Count(uiLog, "stop", w) <= 1
        /\ \A k \in 1..Len(uiLog) :
              (uiLog[k].signal = "stop" /\ uiLog[k].request = w)
              => \E j \in 1..(k - 1) : uiLog[j].signal = "start" /\ uiLog[j].request = w
        /\ (workers[w].pc = "done" /\ ~Pending(w))
              => Count(uiLog, "start", w) = 1 /\ Count(uiLog, "stop", w) = 1

C13_Witness ==
    /\ \A w \in Requests : workers[w].pc = "done" /\ ~Pending(w)
    /\ workers[1].outcome = "raised" /\ workers[2].outcome = "returned"
    /\ uiLog[1].signal = "start" /\ uiLog[2].signal = "start"
    /\ uiLog[1].request = 2

\* C14: a step of a review thread leaves the state of the dialog as it is; the
\* dialog's fields and attributes change only in handlers on the UI thread.
C14_WorkerWritesNoDialogState ==
    [][ (\E w \in Requests : Worker(w)) => UNCHANGED <<dlg, reviewed_instructions>> ]_vars

\* C15: the content stop_processing shows for a request is the reviewer's
\* answer to that request, and nothing is shown for a request whose review
\* raised.
C15_StopShowsOwnResult ==
    [][ StopProcessing
        => LET w == Head(uiQueue).request
               shown == uiLog'[Len(uiLog')].shown
           IN IF workers[w].outcome = "returned"
              THEN shown = <<process_messages(w, workers[w].instructions)>>
              ELSE shown = << >> ]_vars

====
